---- MODULE Spec2Model ----
(***************************************************************************)
(* Capability detection for browser-extension manifests                    *)
(* (src/src/index.ts): the detector analyzeExtensionManifest and the two   *)
(* file loaders getExtensionCapabilities (synchronous) and                 *)
(* getExtensionCapabilitiesAsync (asynchronous, suspending at the          *)
(* existence check and at the read).                                       *)
(***************************************************************************)
EXTENDS Integers, Sequences, FiniteSets, TLC

(***************************************************************************)
(* JSON / JavaScript values.  Every value is a record tagged with its      *)
(* JavaScript type; a string is the sequence of its UTF-16 code units, an  *)
(* array a sequence of values, an object a function from its own keys.     *)
(***************************************************************************)
Undefined == [t |-> "undefined"]

Null == [t |-> "null"]

Num(n) == [t |-> "number", n |-> n]

Str(s) == [t |-> "string", s |-> s]

Arr(a) == [t |-> "array", a |-> a]

Obj(o) == [t |-> "object", o |-> o]

\* an object without keys, {}
NoKeys == [k \in {} |-> Undefined]

\* property read value.key (value?.key when value is null or undefined)
Get(v, k) ==
  IF v.t = "object" /\ k \in DOMAIN v.o THEN v.o[k] ELSE Undefined

\* JavaScript truthiness, as tested by if (value) and value && ...
Truthy(v) ==
  CASE v.t = "undefined" -> FALSE
    [] v.t = "null" -> FALSE
    [] v.t = "number" -> v.n # 0
    [] v.t = "string" -> Len(v.s) > 0
    [] OTHER -> TRUE

\* Array.isArray(value)
IsArray(v) == v.t = "array"

\* value.length > 0: arrays and strings have a length, an object only as a key
LengthPositive(v) ==
  CASE v.t = "array" -> Len(v.a) > 0
    [] v.t = "string" -> Len(v.s) > 0
    [] v.t = "object" ->
         /\ "length" \in DOMAIN v.o
         /\ v.o["length"].t = "number"
         /\ v.o["length"].n > 0
    [] OTHER -> FALSE

\* Object.keys(value).length > 0: own enumerable keys (indices of an array
\* or of a string count)
HasKeys(v) ==
  CASE v.t = "object" -> DOMAIN v.o # {}
    [] v.t = "array" -> Len(v.a) > 0
    [] v.t = "string" -> Len(v.s) > 0
    [] OTHER -> FALSE

\* the code units String.prototype.trim removes (ECMAScript WhiteSpace and
\* LineTerminator below U+0100)
WhiteSpace == {9, 10, 11, 12, 13, 32, 160}

RECURSIVE TrimStart(_)
TrimStart(s) ==
  IF s # <<>> /\ Head(s) \in WhiteSpace THEN TrimStart(Tail(s)) ELSE s

RECURSIVE TrimEnd(_)
TrimEnd(s) ==
  IF s # <<>> /\ s[Len(s)] \in WhiteSpace
    THEN TrimEnd(SubSeq(s, 1, Len(s) - 1))
    ELSE s

\* String.prototype.trim
Trim(s) == TrimEnd(TrimStart(s))

\* isNonEmptyString without the trim: any string with a character counts
isNonEmptyString_NoTrim(value) ==
  value.t = "string" /\ Len(value.s) > 0

isNonEmptyString(value) ==
  value.t = "string" /\ Len(Trim(value.s)) > 0

hasNonEmptyString(arr) ==
  IsArray(arr) /\ \E i \in 1..Len(arr.a) : isNonEmptyString(arr.a[i])

(***************************************************************************)
(* Options.  The argument is optional (undefined) and every read is        *)
(* options?.flag, a missing argument reading as all flags unset.           *)
(***************************************************************************)
Flag(options, name) ==
  IF options.t = "object" /\ name \in DOMAIN options.o
    THEN options.o[name]
    ELSE FALSE

(***************************************************************************)
(* The code units of the capability keys and normalized ids, for the       *)
(* comparison of the final sort.                                           *)
(***************************************************************************)
CodeUnits ==
  "background" :>
    <<98, 97, 99, 107, 103, 114, 111, 117, 110, 100>> @@
  "content_scripts" :>
    <<99, 111, 110, 116, 101, 110, 116, 95, 115, 99, 114, 105, 112, 116, 115>> @@
  "popup" :>
    <<112, 111, 112, 117, 112>> @@
  "action_popup" :>
    <<97, 99, 116, 105, 111, 110, 95, 112, 111, 112, 117, 112>> @@
  "sidebar" :>
    <<115, 105, 100, 101, 98, 97, 114>> @@
  "devtools" :>
    <<100, 101, 118, 116, 111, 111, 108, 115>> @@
  "devtools_page" :>
    <<100, 101, 118, 116, 111, 111, 108, 115, 95, 112, 97, 103, 101>> @@
  "options" :>
    <<111, 112, 116, 105, 111, 110, 115>> @@
  "newtab" :>
    <<110, 101, 119, 116, 97, 98>> @@
  "bookmarks" :>
    <<98, 111, 111, 107, 109, 97, 114, 107, 115>> @@
  "history" :>
    <<104, 105, 115, 116, 111, 114, 121>> @@
  "chrome_url_overrides.newtab" :>
    <<99, 104, 114, 111, 109, 101, 95, 117, 114, 108, 95, 111, 118, 101, 114, 114, 105, 100, 101, 115, 46, 110, 101, 119, 116, 97, 98>> @@
  "chrome_url_overrides.bookmarks" :>
    <<99, 104, 114, 111, 109, 101, 95, 117, 114, 108, 95, 111, 118, 101, 114, 114, 105, 100, 101, 115, 46, 98, 111, 111, 107, 109, 97, 114, 107, 115>> @@
  "chrome_url_overrides.history" :>
    <<99, 104, 114, 111, 109, 101, 95, 117, 114, 108, 95, 111, 118, 101, 114, 114, 105, 100, 101, 115, 46, 104, 105, 115, 116, 111, 114, 121>> @@
  "sandbox" :>
    <<115, 97, 110, 100, 98, 111, 120>> @@
  "web_resources" :>
    <<119, 101, 98, 95, 114, 101, 115, 111, 117, 114, 99, 101, 115>> @@
  "web_accessible_resources" :>
    <<119, 101, 98, 95, 97, 99, 99, 101, 115, 115, 105, 98, 108, 101, 95, 114, 101, 115, 111, 117, 114, 99, 101, 115>> @@
  "omnibox" :>
    <<111, 109, 110, 105, 98, 111, 120>> @@
  "commands" :>
    <<99, 111, 109, 109, 97, 110, 100, 115>> @@
  "settings_homepage" :>
    <<115, 101, 116, 116, 105, 110, 103, 115, 95, 104, 111, 109, 101, 112, 97, 103, 101>> @@
  "settings_search_provider" :>
    <<115, 101, 116, 116, 105, 110, 103, 115, 95, 115, 101, 97, 114, 99, 104, 95, 112, 114, 111, 118, 105, 100, 101, 114>> @@
  "settings_startup_pages" :>
    <<115, 101, 116, 116, 105, 110, 103, 115, 95, 115, 116, 97, 114, 116, 117, 112, 95, 112, 97, 103, 101, 115>> @@
  "chrome_settings_overrides.homepage" :>
    <<99, 104, 114, 111, 109, 101, 95, 115, 101, 116, 116, 105, 110, 103, 115, 95, 111, 118, 101, 114, 114, 105, 100, 101, 115, 46, 104, 111, 109, 101, 112, 97, 103, 101>> @@
  "chrome_settings_overrides.search_provider" :>
    <<99, 104, 114, 111, 109, 101, 95, 115, 101, 116, 116, 105, 110, 103, 115, 95, 111, 118, 101, 114, 114, 105, 100, 101, 115, 46, 115, 101, 97, 114, 99, 104, 95, 112, 114, 111, 118, 105, 100, 101, 114>> @@
  "chrome_settings_overrides.startup_pages" :>
    <<99, 104, 114, 111, 109, 101, 95, 115, 101, 116, 116, 105, 110, 103, 115, 95, 111, 118, 101, 114, 114, 105, 100, 101, 115, 46, 115, 116, 97, 114, 116, 117, 112, 95, 112, 97, 103, 101, 115>> @@
  "declarative_net_request" :>
    <<100, 101, 99, 108, 97, 114, 97, 116, 105, 118, 101, 95, 110, 101, 116, 95, 114, 101, 113, 117, 101, 115, 116>> @@
  "tts_engine" :>
    <<116, 116, 115, 95, 101, 110, 103, 105, 110, 101>> @@
  "manifest" :>
    <<109, 97, 110, 105, 102, 101, 115, 116>>

(***************************************************************************)
(* The static compatibility table.                                         *)
(***************************************************************************)
\* A table in which every supported entry reads as unsupported.
Supported_Unsupported == [safari |-> FALSE]

Supported == [safari |-> TRUE]

CAP_COMPAT ==
  "background" :> Supported @@
  "content_scripts" :> Supported @@
  "popup" :> Supported @@
  "action_popup" :> Supported @@
  "sidebar" :>
    [safari |-> FALSE,
     notes |-> "Chromium uses side_panel; Firefox uses sidebar_action. Safari does not provide an equivalent sidebar UI API.",
     docs |-> "https://developer.mozilla.org/docs/Mozilla/Add-ons/WebExtensions/user_interface"] @@
  "devtools_page" :> Supported @@
  "options" :> Supported @@
  "web_accessible_resources" :> Supported @@
  "commands" :> Supported @@
  "omnibox" :>
    [safari |-> FALSE,
     notes |-> "Safari does not support Omnibox keyword for WebExtensions.",
     docs |-> "https://developer.mozilla.org/docs/Mozilla/Add-ons/WebExtensions/manifest.json/omnibox"] @@
  "chrome_url_overrides.newtab" :>
    [safari |-> FALSE,
     notes |-> "Safari does not support chrome_url_overrides.",
     docs |-> "https://developer.mozilla.org/docs/Mozilla/Add-ons/WebExtensions/manifest.json/chrome_url_overrides"] @@
  "chrome_url_overrides.bookmarks" :>
    [safari |-> FALSE,
     notes |-> "Safari does not support bookmarks/history overrides via chrome_url_overrides.",
     docs |-> "https://developer.mozilla.org/docs/Mozilla/Add-ons/WebExtensions/manifest.json/chrome_url_overrides"] @@
  "chrome_url_overrides.history" :>
    [safari |-> FALSE,
     notes |-> "Safari does not support bookmarks/history overrides via chrome_url_overrides.",
     docs |-> "https://developer.mozilla.org/docs/Mozilla/Add-ons/WebExtensions/manifest.json/chrome_url_overrides"] @@
  "declarative_net_request" :>
    [safari |-> FALSE,
     notes |-> "Safari uses a different content blocking model; DNR is not supported.",
     docs |-> "https://developer.chrome.com/docs/extensions/reference/declarativeNetRequest/"] @@
  "tts_engine" :>
    [safari |-> FALSE,
     notes |-> "Speech engine APIs are not available for Safari WebExtensions.",
     docs |-> "https://developer.mozilla.org/docs/Mozilla/Add-ons/WebExtensions/manifest.json/tts_engine"]

(***************************************************************************)
(* The capability map: a Map keeps its entries in insertion order, and     *)
(* set() on a key it already holds replaces the value in place.  It is a   *)
(* sequence of <<key, entry>> pairs.                                       *)
(***************************************************************************)
EmptyMap == <<>>

MapHas(map, key) == \E i \in 1..Len(map) : map[i][1] = key

MapSet(map, key, entry) ==
  IF MapHas(map, key)
    THEN [i \in 1..Len(map) |->
            IF map[i][1] = key THEN <<key, entry>> ELSE map[i]]
    ELSE Append(map, <<key, entry>>)

\* Array.from(map.values())
MapValues(map) == [i \in 1..Len(map) |-> map[i][2]]

\* an optional attribute of a record: present only under its condition
Attr(cond, name, value) ==
  IF cond THEN name :> value ELSE [x \in {} |-> value]

\* CAP_COMPAT is one object per process and its entries are objects too:
\* capCompat is what the entries hold now, CAP_COMPAT what they hold when
\* the module is loaded.  A record gets the entry itself, not a copy.
VARIABLE capCompat

\* pushCapability looking the compatibility table up under the capability
\* key instead of the normalized id.
pushCapability_KeyedByCapability(map, key, description, opts, fields, normalizedId) ==
  LET entry ==
        [capability |-> key, description |-> description]
          @@ Attr(Flag(opts, "includeFields") /\ Len(fields) > 0,
                  "fields", fields)
          @@ Attr(Flag(opts, "normalizeNames") /\ normalizedId # "",
                  "id", normalizedId)
          @@ Attr(Flag(opts, "includeCompatibility")
                    /\ key \in DOMAIN CAP_COMPAT,
                  "compatibility",
                  IF key \in DOMAIN CAP_COMPAT
                    THEN capCompat[key]
                    ELSE Supported)
  IN MapSet(map, key, entry)

pushCapability(map, key, description, opts, fields, normalizedId) ==
  LET compatKey == normalizedId  \* normalizedId ?? key: every call passes one
      entry ==
        [capability |-> key, description |-> description]
          @@ Attr(Flag(opts, "includeFields") /\ Len(fields) > 0,
                  "fields", fields)
          @@ Attr(Flag(opts, "normalizeNames") /\ normalizedId # "",
                  "id", normalizedId)
          @@ Attr(Flag(opts, "includeCompatibility")
                    /\ compatKey \in DOMAIN CAP_COMPAT,
                  "compatibility",
                  IF compatKey \in DOMAIN CAP_COMPAT
                    THEN capCompat[compatKey]
                    ELSE Supported)
  IN MapSet(map, key, entry)

(***************************************************************************)
(* The rules of analyzeExtensionManifest, in the order of the code.  Each  *)
(* gives the pushCapability calls its conditional makes on the manifest:   *)
(* a sequence of the calls' arguments, empty when the condition fails.     *)
(***************************************************************************)
Call(key, description, fields, normalizedId) ==
  << [key |-> key, description |-> description, fields |-> fields,
      normalizedId |-> normalizedId] >>

RuleBackground(manifest) ==
  LET background == Get(manifest, "background")
      hasBg ==
        \/ isNonEmptyString(Get(background, "page"))
        \/ isNonEmptyString(Get(background, "service_worker"))
        \/ hasNonEmptyString(Get(background, "scripts"))
  IN IF Truthy(background) /\ hasBg
       THEN Call("background",
              "Background service worker or page for persistent functionality",
              <<"background.page", "background.scripts",
                "background.service_worker">>,
              "background")
       ELSE <<>>

RuleContentScripts(manifest) ==
  LET content_scripts == Get(manifest, "content_scripts")
  IN IF IsArray(content_scripts) /\ LengthPositive(content_scripts)
       THEN Call("content_scripts",
              "Content scripts that run on web pages to interact with page content",
              <<"content_scripts">>, "content_scripts")
       ELSE <<>>

\* RulePopup with one conditional, and one call, per alias
RulePopup_PerAlias(manifest) ==
  LET call == Call("popup", "Toolbar popup UI",
                   <<"action.default_popup", "browser_action.default_popup",
                     "page_action.default_popup">>,
                   "action_popup")
  IN (IF isNonEmptyString(Get(Get(manifest, "action"), "default_popup"))
        THEN call ELSE <<>>)
     \o (IF isNonEmptyString(Get(Get(manifest, "browser_action"),
                                 "default_popup"))
           THEN call ELSE <<>>)
     \o (IF isNonEmptyString(Get(Get(manifest, "page_action"),
                                 "default_popup"))
           THEN call ELSE <<>>)

\* RulePopup listing only the alias fields that matched
RulePopup_MatchedOnly(manifest) ==
  LET matched ==
        (IF isNonEmptyString(Get(Get(manifest, "action"), "default_popup"))
           THEN <<"action.default_popup">> ELSE <<>>)
        \o (IF isNonEmptyString(Get(Get(manifest, "browser_action"),
                                    "default_popup"))
              THEN <<"browser_action.default_popup">> ELSE <<>>)
        \o (IF isNonEmptyString(Get(Get(manifest, "page_action"),
                                    "default_popup"))
              THEN <<"page_action.default_popup">> ELSE <<>>)
  IN IF matched # <<>>
       THEN Call("popup", "Toolbar popup UI", matched, "action_popup")
       ELSE <<>>

RulePopup(manifest) ==
  IF \/ isNonEmptyString(Get(Get(manifest, "action"), "default_popup"))
     \/ isNonEmptyString(Get(Get(manifest, "browser_action"), "default_popup"))
     \/ isNonEmptyString(Get(Get(manifest, "page_action"), "default_popup"))
    THEN Call("popup", "Toolbar popup UI",
           <<"action.default_popup", "browser_action.default_popup",
             "page_action.default_popup">>,
           "action_popup")
    ELSE <<>>

RuleSidebar(manifest) ==
  IF \/ isNonEmptyString(Get(Get(manifest, "side_panel"), "default_path"))
     \/ isNonEmptyString(Get(Get(manifest, "sidebar_action"), "default_panel"))
    THEN Call("sidebar", "Side panel UI",
           <<"side_panel.default_path", "sidebar_action.default_panel">>,
           "sidebar")
    ELSE <<>>

\* RuleDevtools passing the capability key as the normalized id
RuleDevtools_CapabilityAsId(manifest) ==
  IF isNonEmptyString(Get(manifest, "devtools_page"))
    THEN Call("devtools", "Developer tools panel",
           <<"devtools_page">>, "devtools")
    ELSE <<>>

RuleDevtools(manifest) ==
  IF isNonEmptyString(Get(manifest, "devtools_page"))
    THEN Call("devtools", "Developer tools panel",
           <<"devtools_page">>, "devtools_page")
    ELSE <<>>

RuleOptions(manifest) ==
  IF \/ isNonEmptyString(Get(Get(manifest, "options_ui"), "page"))
     \/ isNonEmptyString(Get(manifest, "options_page"))
    THEN Call("options", "Options page for user configuration",
           <<"options_ui.page", "options_page">>, "options")
    ELSE <<>>

RuleUrlOverrides(manifest) ==
  LET chrome_url_overrides == Get(manifest, "chrome_url_overrides")
      newtab ==
        IF isNonEmptyString(Get(chrome_url_overrides, "newtab"))
          THEN Call("newtab", "New tab page override",
                 <<"chrome_url_overrides.newtab">>,
                 "chrome_url_overrides.newtab")
          ELSE <<>>
      bookmarks ==
        IF isNonEmptyString(Get(chrome_url_overrides, "bookmarks"))
          THEN Call("bookmarks", "Bookmarks page override",
                 <<"chrome_url_overrides.bookmarks">>,
                 "chrome_url_overrides.bookmarks")
          ELSE <<>>
      history ==
        IF isNonEmptyString(Get(chrome_url_overrides, "history"))
          THEN Call("history", "History page override",
                 <<"chrome_url_overrides.history">>,
                 "chrome_url_overrides.history")
          ELSE <<>>
  IN IF Truthy(chrome_url_overrides)
       THEN newtab \o bookmarks \o history
       ELSE <<>>

RuleSandbox(manifest) ==
  LET pages == Get(Get(manifest, "sandbox"), "pages")
  IN IF /\ IsArray(pages)
        /\ \E i \in 1..Len(pages.a) : isNonEmptyString(pages.a[i])
       THEN Call("sandbox", "Sandboxed pages for isolated execution",
              <<"sandbox.pages">>, "sandbox")
       ELSE <<>>

\* the callback of war.some(...)
\* WarItem that accepts only the MV2 form, a plain string
WarItem_StringsOnly(item) == item.t = "string" /\ isNonEmptyString(item)

WarItem(item) ==
  \/ item.t = "string" /\ isNonEmptyString(item)
  \/ /\ item.t \in {"object", "array"}  \* typeof item === 'object' && item
     /\ IsArray(Get(item, "resources"))
     /\ \E i \in 1..Len(Get(item, "resources").a) :
          isNonEmptyString(Get(item, "resources").a[i])

RuleWebResources(manifest) ==
  LET war == Get(manifest, "web_accessible_resources")
      hasWAR ==
        /\ IsArray(war)
        /\ Len(war.a) > 0
        /\ \E i \in 1..Len(war.a) : WarItem(war.a[i])
  IN IF hasWAR
       THEN Call("web_resources",
              "Web-accessible resources exposed to web pages",
              <<"web_accessible_resources">>, "web_accessible_resources")
       ELSE <<>>

RuleOmnibox(manifest) ==
  IF Truthy(Get(Get(manifest, "omnibox"), "keyword"))
    THEN Call("omnibox", "Omnibox keyword integration",
           <<"omnibox.keyword">>, "omnibox")
    ELSE <<>>

RuleCommands(manifest) ==
  LET commands == Get(manifest, "commands")
  IN IF Truthy(commands) /\ HasKeys(commands)
       THEN Call("commands", "Keyboard shortcuts and command actions",
              <<"commands">>, "commands")
       ELSE <<>>

RuleSettingsOverrides(manifest) ==
  LET chrome_settings_overrides == Get(manifest, "chrome_settings_overrides")
      startup_pages == Get(chrome_settings_overrides, "startup_pages")
      homepage ==
        IF Truthy(Get(chrome_settings_overrides, "homepage"))
          THEN Call("settings_homepage",
                 "Browser settings override: homepage",
                 <<"chrome_settings_overrides.homepage">>,
                 "chrome_settings_overrides.homepage")
          ELSE <<>>
      search_provider ==
        IF Truthy(Get(chrome_settings_overrides, "search_provider"))
          THEN Call("settings_search_provider",
                 "Browser settings override: search provider",
                 <<"chrome_settings_overrides.search_provider">>,
                 "chrome_settings_overrides.search_provider")
          ELSE <<>>
      startup ==
        IF IsArray(startup_pages) /\ LengthPositive(startup_pages)
          THEN Call("settings_startup_pages",
                 "Browser settings override: startup pages",
                 <<"chrome_settings_overrides.startup_pages">>,
                 "chrome_settings_overrides.startup_pages")
          ELSE <<>>
  IN IF Truthy(chrome_settings_overrides)
       THEN homepage \o search_provider \o startup
       ELSE <<>>

RuleDeclarativeNetRequest(manifest) ==
  LET rule_resources ==
        Get(Get(manifest, "declarative_net_request"), "rule_resources")
  IN IF Truthy(rule_resources) /\ LengthPositive(rule_resources)
       THEN Call("declarative_net_request",
              "Declarative network request rules",
              <<"declarative_net_request.rule_resources">>,
              "declarative_net_request")
       ELSE <<>>

RuleTtsEngine(manifest) ==
  LET voices == Get(Get(manifest, "tts_engine"), "voices")
  IN IF IsArray(voices) /\ LengthPositive(voices)
       THEN Call("tts_engine", "Text-to-speech engine",
              <<"tts_engine.voices">>, "tts_engine")
       ELSE <<>>

\* the pushCapability calls of one run, in the order they are made
Calls(manifest) ==
  RuleBackground(manifest) \o RuleContentScripts(manifest)
    \o RulePopup(manifest) \o RuleSidebar(manifest)
    \o RuleDevtools(manifest) \o RuleOptions(manifest)
    \o RuleUrlOverrides(manifest) \o RuleSandbox(manifest)
    \o RuleWebResources(manifest) \o RuleOmnibox(manifest)
    \o RuleCommands(manifest) \o RuleSettingsOverrides(manifest)
    \o RuleDeclarativeNetRequest(manifest) \o RuleTtsEngine(manifest)

(***************************************************************************)
(* The final sort.                                                         *)
(***************************************************************************)
\* String.prototype.toLowerCase on code units (A-Z to a-z)
toLowerCase(s) ==
  [i \in 1..Len(s) |-> IF s[i] \in 65..90 THEN s[i] + 32 ELSE s[i]]

\* the collation weight of a code unit of a key: punctuation sorts before
\* the letters, '_' before '.'
CollationWeight(c) ==
  CASE c = 95 -> 1
    [] c = 46 -> 2
    [] OTHER -> c

\* a.localeCompare(b): negative, zero or positive
RECURSIVE localeCompare(_, _)
localeCompare(a, b) ==
  CASE a = <<>> /\ b = <<>> -> 0
    [] a = <<>> /\ b # <<>> -> -1
    [] a # <<>> /\ b = <<>> -> 1
    [] OTHER ->
         IF CollationWeight(Head(a)) < CollationWeight(Head(b)) THEN -1
         ELSE IF CollationWeight(Head(a)) > CollationWeight(Head(b)) THEN 1
         ELSE localeCompare(Tail(a), Tail(b))

\* SortKey that ignores the id: a.capability
SortKey_Capability(entry) == entry.capability

\* a.id ?? a.capability
SortKey(entry) ==
  IF "id" \in DOMAIN entry THEN entry.id ELSE entry.capability

\* the comparator handed to sort
CompareEntries(a, b) ==
  LET ak == toLowerCase(CodeUnits[SortKey(a)])
      bk == toLowerCase(CodeUnits[SortKey(b)])
  IN localeCompare(ak, bk)

\* Array.prototype.sort is stable: an element goes after every element that
\* does not compare greater than it
RECURSIVE InsertSorted(_, _)
InsertSorted(sorted, x) ==
  IF sorted = <<>> THEN <<x>>
  ELSE IF CompareEntries(Head(sorted), x) <= 0
    THEN <<Head(sorted)>> \o InsertSorted(Tail(sorted), x)
    ELSE <<x>> \o sorted

RECURSIVE SortEntries(_)
SortEntries(list) ==
  IF list = <<>> THEN <<>>
  ELSE InsertSorted(SortEntries(SubSeq(list, 1, Len(list) - 1)),
                    list[Len(list)])

(***************************************************************************)
(* The fallback list of analyzeExtensionManifest (the loaders write their  *)
(* own, below).                                                            *)
(***************************************************************************)
\* FallbackList without the record: an empty list
FallbackList_Empty(opts) == <<>>

FallbackList(opts) ==
  << [capability |-> "manifest",
      description |-> "Basic extension manifest configuration"]
       @@ Attr(Flag(opts, "normalizeNames"), "id", "manifest")
       @@ Attr(Flag(opts, "includeFields"), "fields", <<>>) >>

(***************************************************************************)
(* analyzeExtensionManifest.  An outcome is a returned list or a thrown    *)
(* error.  Reading a property of null or undefined throws a TypeError: the *)
(* run throws at the first such read, manifest.background being the first. *)
(***************************************************************************)
Return(list) == [kind |-> "return", value |-> list]

Throw(error) == [kind |-> "throw", error |-> error]

TypeErrorOf(v) == [name |-> "TypeError", of |-> v.t]

\* the map after the given calls
RECURSIVE MapAfter(_, _)
MapAfter(calls, opts) ==
  IF calls = <<>> THEN EmptyMap
  ELSE LET c == calls[Len(calls)]
       IN pushCapability(MapAfter(SubSeq(calls, 1, Len(calls) - 1), opts),
                         c.key, c.description, opts, c.fields, c.normalizedId)

\* capabilityMap kept as a list: every call appends its record, and the
\* popup rule makes one call per alias
capabilityMap_PerAliasList(manifest, opts) ==
  LET calls ==
        RuleBackground(manifest) \o RuleContentScripts(manifest)
          \o RulePopup_PerAlias(manifest) \o RuleSidebar(manifest)
          \o RuleDevtools(manifest) \o RuleOptions(manifest)
          \o RuleUrlOverrides(manifest) \o RuleSandbox(manifest)
          \o RuleWebResources(manifest) \o RuleOmnibox(manifest)
          \o RuleCommands(manifest) \o RuleSettingsOverrides(manifest)
          \o RuleDeclarativeNetRequest(manifest) \o RuleTtsEngine(manifest)
  IN [i \in 1..Len(calls) |->
        pushCapability(EmptyMap, calls[i].key, calls[i].description, opts,
                       calls[i].fields, calls[i].normalizedId)[1]]

\* capabilityMap when the last rule has been evaluated
capabilityMap(manifest, opts) == MapAfter(Calls(manifest), opts)

\* null and undefined: reading a property of either throws a TypeError
Nullish(v) == v.t \in {"null", "undefined"}

\* The values one entry of web_accessible_resources has a property read
\* of: the entry itself once typeof item === 'object' && item holds, and
\* its resources once they are an array.
WarItemReads(item) ==
  IF item.t \in {"object", "array"}
    THEN <<item>>
           \o (IF IsArray(Get(item, "resources"))
                 THEN <<Get(item, "resources")>> ELSE <<>>)
    ELSE <<>>

\* some(...) visits the entries in order and stops at the first it accepts
RECURSIVE WarItemsRead(_)
WarItemsRead(a) ==
  IF a = <<>> THEN <<>>
  ELSE WarItemReads(Head(a))
         \o (IF WarItem(Head(a)) THEN <<>> ELSE WarItemsRead(Tail(a)))

\* The values a run reads a property of without optional chaining, in the
\* order of the reads, each under the guard the code puts before it.
PropertyReads(manifest) ==
  LET background == Get(manifest, "background")
      content_scripts == Get(manifest, "content_scripts")
      chrome_url_overrides == Get(manifest, "chrome_url_overrides")
      sandbox == Get(manifest, "sandbox")
      war == Get(manifest, "web_accessible_resources")
      commands == Get(manifest, "commands")
      chrome_settings_overrides == Get(manifest, "chrome_settings_overrides")
      startup_pages == Get(chrome_settings_overrides, "startup_pages")
      declarative_net_request == Get(manifest, "declarative_net_request")
      rule_resources == Get(declarative_net_request, "rule_resources")
      tts_engine == Get(manifest, "tts_engine")
  IN <<manifest>>
       \o (IF Truthy(background) THEN <<background>> ELSE <<>>)
       \o (IF IsArray(content_scripts) THEN <<content_scripts>> ELSE <<>>)
       \o (IF Truthy(chrome_url_overrides)
             THEN <<chrome_url_overrides>> ELSE <<>>)
       \o (IF IsArray(Get(sandbox, "pages"))
             THEN <<sandbox, Get(sandbox, "pages")>> ELSE <<>>)
       \o (IF IsArray(war) THEN <<war>> \o WarItemsRead(war.a) ELSE <<>>)
       \o (IF Truthy(commands) THEN <<commands>> ELSE <<>>)
       \o (IF Truthy(chrome_settings_overrides)
             THEN <<chrome_settings_overrides>>
                    \o (IF IsArray(startup_pages)
                          THEN <<startup_pages>> ELSE <<>>)
             ELSE <<>>)
       \o (IF Truthy(rule_resources)
             THEN <<declarative_net_request, rule_resources>> ELSE <<>>)
       \o (IF IsArray(Get(tts_engine, "voices"))
             THEN <<tts_engine, Get(tts_engine, "voices")>> ELSE <<>>)

analyzeExtensionManifest(manifest, options) ==
  LET opts == options  \* options ?? {}: both read as all flags unset
      map == capabilityMap(manifest, opts)
      reads == PropertyReads(manifest)
      failing == {i \in 1..Len(reads) : Nullish(reads[i])}
      first == CHOOSE i \in failing : \A j \in failing : i <= j
  IN IF failing # {}
       THEN Throw(TypeErrorOf(reads[first]))
       ELSE IF Len(map) > 0
         THEN Return(SortEntries(MapValues(map)))
         ELSE Return(FallbackList(opts))

(***************************************************************************)
(* The file system, as far as the loaders use it: one file may exist, at   *)
(* ManifestPath; nothing exists at any other path.  The file is missing,   *)
(* present but unreadable (the read fails), or holds a text that is        *)
(* well-formed JSON for a value or is not JSON at all.                     *)
(***************************************************************************)
ManifestPath == "ext/manifest.json"

OtherPath == "nowhere/manifest.json"

Paths == {ManifestPath, OtherPath}

Missing == [kind |-> "missing"]

Unreadable == [kind |-> "unreadable"]

NotJson == [kind |-> "text", wellFormed |-> FALSE]

JsonText(v) == [kind |-> "text", wellFormed |-> TRUE, value |-> v]

\* what is at a path
FileAt(f, path) == IF path = ManifestPath THEN f ELSE Missing

\* fs.existsSync(path)
existsSync(f, path) == FileAt(f, path).kind # "missing"

\* fs.promises.access(path, F_OK): resolves or rejects
access(f, path) ==
  IF FileAt(f, path).kind # "missing"
    THEN Return(Undefined)
    ELSE Throw([name |-> "Error", code |-> "ENOENT", syscall |-> "access",
                path |-> path])

\* fs.readFileSync(path, 'utf8') and fs.promises.readFile(path, 'utf8')
readFile(f, path) ==
  CASE FileAt(f, path).kind = "missing" ->
         Throw([name |-> "Error", code |-> "ENOENT", syscall |-> "open",
                path |-> path])
    [] FileAt(f, path).kind = "unreadable" ->
         Throw([name |-> "Error", code |-> "EACCES", syscall |-> "open",
                path |-> path])
    [] OTHER -> Return(FileAt(f, path))

\* JSON.parse(text)
JSONParse(text) ==
  IF text.wellFormed
    THEN Return(text.value)
    ELSE Throw([name |-> "SyntaxError"])

\* NotFoundError with a message that leaves the path out
NotFoundError_NoPath(manifestPath) ==
  [name |-> "Error", message |-> <<"Manifest file not found at: ", "">>]

\* new Error(`Manifest file not found at: ${manifestPath}`)
NotFoundError(manifestPath) ==
  [name |-> "Error",
   message |-> <<"Manifest file not found at: ", manifestPath>>]

\* console.warn(`Manifest file not found at: ${manifestPath}`)
WarnNotFound(manifestPath) ==
  [level |-> "warn",
   text |-> <<"Manifest file not found at: ", manifestPath>>]

\* console.error('Error analyzing extension manifest:', error)
LogError(error) ==
  [level |-> "error", text |-> "Error analyzing extension manifest:",
   error |-> error]

\* the result of a call: its outcome and what it wrote to the console
Result(outcome, log) == [outcome |-> outcome, log |-> log]

(***************************************************************************)
(* getExtensionCapabilities (synchronous).                                 *)
(***************************************************************************)
SyncNotFoundFallback(options) ==
  << [capability |-> "manifest",
      description |-> "Basic extension manifest configuration"]
       @@ Attr(Flag(options, "normalizeNames"), "id", "manifest")
       @@ Attr(Flag(options, "includeFields"), "fields", <<>>) >>

SyncFailureFallback(options) ==
  << [capability |-> "manifest",
      description |-> "Basic extension manifest configuration"]
       @@ Attr(Flag(options, "normalizeNames"), "id", "manifest")
       @@ Attr(Flag(options, "includeFields"), "fields", <<>>) >>

\* ReadParseAnalyze that does not hand the options on to the detector
ReadParseAnalyze_DropsOptions(f, manifestPath, options) ==
  LET manifestContent == readFile(f, manifestPath)
      manifest == JSONParse(manifestContent.value)
  IN IF manifestContent.kind = "throw" THEN manifestContent
     ELSE IF manifest.kind = "throw" THEN manifest
     ELSE analyzeExtensionManifest(manifest.value, Undefined)

\* the statements after a successful existence check: read, parse, analyze
ReadParseAnalyze(f, manifestPath, options) ==
  LET manifestContent == readFile(f, manifestPath)
      manifest == JSONParse(manifestContent.value)
  IN IF manifestContent.kind = "throw" THEN manifestContent
     ELSE IF manifest.kind = "throw" THEN manifest
     ELSE analyzeExtensionManifest(manifest.value, options)

\* the try block
SyncTry(f, manifestPath, options) ==
  IF ~existsSync(f, manifestPath)
    THEN IF Flag(options, "strict")
           THEN Result(Throw(NotFoundError(manifestPath)), <<>>)
           ELSE Result(Return(SyncNotFoundFallback(options)),
                       <<WarnNotFound(manifestPath)>>)
    ELSE Result(ReadParseAnalyze(f, manifestPath, options), <<>>)

\* SyncCatch that rethrows whatever the strict flag says
SyncCatch_Rethrows(error, log, options) == Result(Throw(error), log)

\* the catch block, entered with what the try block threw
SyncCatch(error, log, options) ==
  IF Flag(options, "strict")
    THEN Result(Throw(error), log)
    ELSE Result(Return(SyncFailureFallback(options)),
                Append(log, LogError(error)))

getExtensionCapabilities(f, manifestPath, options) ==
  LET tried == SyncTry(f, manifestPath, options)
  IN IF tried.outcome.kind = "throw"
       THEN SyncCatch(tried.outcome.error, tried.log, options)
       ELSE tried

(***************************************************************************)
(* getExtensionCapabilitiesAsync: the continuation after each await.       *)
(***************************************************************************)
AsyncNotFoundFallback(options) ==
  << [capability |-> "manifest",
      description |-> "Basic extension manifest configuration"]
       @@ Attr(Flag(options, "normalizeNames"), "id", "manifest")
       @@ Attr(Flag(options, "includeFields"), "fields", <<>>) >>

\* AsyncFailureFallback that leaves out the empty fields list
AsyncFailureFallback_NoFields(options) ==
  << [capability |-> "manifest",
      description |-> "Basic extension manifest configuration"]
       @@ Attr(Flag(options, "normalizeNames"), "id", "manifest") >>

AsyncFailureFallback(options) ==
  << [capability |-> "manifest",
      description |-> "Basic extension manifest configuration"]
       @@ Attr(Flag(options, "normalizeNames"), "id", "manifest")
       @@ Attr(Flag(options, "includeFields"), "fields", <<>>) >>

\* AsyncAccessCatch that returns the fallback without the warning
AsyncAccessCatch_Silent(manifestPath, options) ==
  IF Flag(options, "strict")
    THEN Result(Throw(NotFoundError(manifestPath)), <<>>)
    ELSE Result(Return(AsyncNotFoundFallback(options)), <<>>)

\* the catch of the first try, entered when access rejected
AsyncAccessCatch(manifestPath, options) ==
  IF Flag(options, "strict")
    THEN Result(Throw(NotFoundError(manifestPath)), <<>>)
    ELSE Result(Return(AsyncNotFoundFallback(options)),
                <<WarnNotFound(manifestPath)>>)

\* AsyncAfterRead that throws a new error wrapping the caught one
AsyncAfterRead_Wraps(manifestContent, options) ==
  LET manifest == JSONParse(manifestContent.value)
      tried ==
        IF manifestContent.kind = "throw" THEN manifestContent
        ELSE IF manifest.kind = "throw" THEN manifest
        ELSE analyzeExtensionManifest(manifest.value, options)
  IN IF tried.kind = "throw"
       THEN IF Flag(options, "strict")
              THEN Result(Throw([name |-> "Error", cause |-> tried.error]),
                          <<>>)
              ELSE Result(Return(AsyncFailureFallback(options)),
                          <<LogError(tried.error)>>)
       ELSE Result(tried, <<>>)

\* the second try, resumed with what readFile settled to, and its catch
AsyncAfterRead(manifestContent, options) ==
  LET manifest == JSONParse(manifestContent.value)
      tried ==
        IF manifestContent.kind = "throw" THEN manifestContent
        ELSE IF manifest.kind = "throw" THEN manifest
        ELSE analyzeExtensionManifest(manifest.value, options)
  IN IF tried.kind = "throw"
       THEN IF Flag(options, "strict")
              THEN Result(Throw(tried.error), <<>>)
              ELSE Result(Return(AsyncFailureFallback(options)),
                          <<LogError(tried.error)>>)
       ELSE Result(tried, <<>>)

(***************************************************************************)
(* The manifests of the model.                                             *)
(***************************************************************************)
\* the options a caller passes: none, or any setting of the four flags
FlagNames == {"strict", "includeFields", "normalizeNames",
              "includeCompatibility"}

OptionValues == {Undefined} \cup {Obj(o) : o \in [FlagNames -> BOOLEAN]}

\* the manifest fields some rule reads, <<key>> or <<key, nested key>>
TriggerFields ==
  { <<"background", "page">>, <<"background", "service_worker">>,
    <<"background", "scripts">>, <<"content_scripts">>,
    <<"action", "default_popup">>, <<"browser_action", "default_popup">>,
    <<"page_action", "default_popup">>, <<"side_panel", "default_path">>,
    <<"sidebar_action", "default_panel">>, <<"devtools_page">>,
    <<"options_ui", "page">>, <<"options_page">>,
    <<"chrome_url_overrides", "newtab">>,
    <<"chrome_url_overrides", "bookmarks">>,
    <<"chrome_url_overrides", "history">>, <<"sandbox", "pages">>,
    <<"web_accessible_resources">>, <<"omnibox", "keyword">>, <<"commands">>,
    <<"chrome_settings_overrides", "homepage">>,
    <<"chrome_settings_overrides", "search_provider">>,
    <<"chrome_settings_overrides", "startup_pages">>,
    <<"declarative_net_request", "rule_resources">>,
    <<"tts_engine", "voices">> }

\* the manifest keys that hold an object of nested trigger fields
Containers == {f[1] : f \in {g \in TriggerFields : Len(g) = 2}}

X == Str(<<120, 46, 106, 115>>)  \* "x.js"

Blank == Str(<<32, 9>>)  \* a space and a tab

Padded == Str(<<32, 120, 32>>)  \* " x "

ResourcesOf(v) == Obj("resources" :> Arr(<<v>>))

\* the JSON values a trigger field is given
Values ==
  { Null, Num(0), Num(7), Str(<<>>), Blank, Padded, X,
    Arr(<<>>), Arr(<<Blank>>), Arr(<<X>>), Arr(<<Null>>),
    Arr(<<ResourcesOf(X)>>), Arr(<<ResourcesOf(Blank)>>),
    Arr(<<Blank, X>>), Obj(NoKeys), ResourcesOf(X) }

\* the well-formed value of a field, of the type the manifest schema gives it
WellFormed(f) ==
  CASE f \in { <<"background", "scripts">>, <<"sandbox", "pages">>,
               <<"web_accessible_resources">>,
               <<"chrome_settings_overrides", "startup_pages">> } ->
         Arr(<<X>>)
    [] f \in { <<"content_scripts">>,
               <<"declarative_net_request", "rule_resources">>,
               <<"tts_engine", "voices">> } ->
         Arr(<<ResourcesOf(X)>>)
    [] f \in { <<"commands">>,
               <<"chrome_settings_overrides", "search_provider">> } ->
         ResourcesOf(X)
    [] OTHER -> X

\* the manifest m with field f set to v
SetField(m, f, v) ==
  IF Len(f) = 1
    THEN Obj((f[1] :> v) @@ m.o)
    ELSE LET cur == Get(m, f[1])
             inner == IF cur.t = "object" THEN cur.o ELSE NoKeys
         IN Obj((f[1] :> Obj((f[2] :> v) @@ inner)) @@ m.o)

EmptyManifest == Obj(NoKeys)

\* how many fields a manifest of well-formed fields sets at most
MaxFields == 2

RECURSIVE FieldSets(_)
FieldSets(n) ==
  IF n = 0 THEN {{}}
  ELSE LET smaller == FieldSets(n - 1)
       IN smaller \cup {s \cup {f} : s \in smaller, f \in TriggerFields}

RECURSIVE WithFields(_, _)
WithFields(m, fields) ==
  IF fields = {} THEN m
  ELSE LET f == CHOOSE g \in fields : TRUE
       IN WithFields(SetField(m, f, WellFormed(f)), fields \ {f})

\* manifests of well-formed fields only
WellFormedManifests ==
  {WithFields(EmptyManifest, s) : s \in FieldSets(MaxFields)}

\* manifests with a single field, of any value
SingleFieldManifests ==
  {SetField(EmptyManifest, f, v) : f \in TriggerFields, v \in Values}

\* manifests with a field that holds an empty, blank or padded string
\* beside one well-formed field
BlankBesideManifests ==
  { SetField(SetField(EmptyManifest, g, WellFormed(g)), f, v) :
      g \in TriggerFields, f \in TriggerFields,
      v \in {Str(<<>>), Blank, Padded} }

\* manifests whose container key holds something that is not an object
BrokenContainerManifests ==
  { Obj(c :> v) : c \in Containers, v \in {Null, Num(7), X, Arr(<<X>>)} }

\* the manifests of the documented scenarios: background.service_worker
\* with a content script and action.default_popup; the same popup under
\* all three action keys
ScenarioManifests ==
  { WithFields(EmptyManifest,
               { <<"background", "service_worker">>, <<"content_scripts">>,
                 <<"action", "default_popup">> }),
    WithFields(EmptyManifest,
               { <<"action", "default_popup">>,
                 <<"browser_action", "default_popup">>,
                 <<"page_action", "default_popup">> }) }

Manifests ==
  WellFormedManifests \cup SingleFieldManifests \cup BlankBesideManifests
    \cup BrokenContainerManifests \cup ScenarioManifests

\* what a JSON text can parse to: a manifest, or a value that is no object
Documents == Manifests \cup {Null, Num(7), X, Arr(<<X>>)}

(***************************************************************************)
(* State.                                                                  *)
(***************************************************************************)
VARIABLES
  manifest,  \* the parsed manifest the caller holds
  file,      \* the file at ManifestPath
  pc,        \* "idle", "access" / "read" (the async call is suspended), "done"
  call,      \* the call in progress or just completed: function and arguments
  outcome,   \* what the call returned or threw
  log        \* what the call wrote to the console

vars == <<manifest, file, pc, call, outcome, log, capCompat>>

NoCall == [fn |-> "none"]

Pending == [kind |-> "pending"]

\* the caller holds a manifest; the file holds its text, or there is no
\* usable file
Init ==
  /\ \E d \in Documents :
       \/ manifest = d /\ file = JsonText(d)
       \/ /\ d = EmptyManifest
          /\ manifest = d
          /\ file \in {Missing, Unreadable, NotJson}
  /\ pc = "idle"
  /\ call = NoCall
  /\ outcome = Pending
  /\ log = <<>>
  /\ capCompat = CAP_COMPAT

\* analyzeExtensionManifest(manifest, options)
CallAnalyze(options) ==
  /\ pc = "idle"
  /\ pc' = "done"
  /\ call' = [fn |-> "analyze", options |-> options]
  /\ outcome' = analyzeExtensionManifest(manifest, options)
  /\ log' = <<>>
  /\ UNCHANGED <<manifest, file, capCompat>>

\* getExtensionCapabilities(manifestPath, options)
CallSync(manifestPath, options) ==
  /\ pc = "idle"
  /\ pc' = "done"
  /\ call' = [fn |-> "sync", path |-> manifestPath, options |-> options]
  /\ LET r == getExtensionCapabilities(file, manifestPath, options)
     IN outcome' = r.outcome /\ log' = r.log
  /\ UNCHANGED <<manifest, file, capCompat>>

\* getExtensionCapabilitiesAsync(manifestPath, options): up to the first await
CallAsync(manifestPath, options) ==
  /\ pc = "idle"
  /\ pc' = "access"
  /\ call' = [fn |-> "async", path |-> manifestPath, options |-> options]
  /\ UNCHANGED <<manifest, file, outcome, log, capCompat>>

\* fs.promises.access settles
AccessSettles ==
  /\ pc = "access"
  /\ IF access(file, call.path).kind = "throw"
       THEN LET r == AsyncAccessCatch(call.path, call.options)
            IN pc' = "done" /\ outcome' = r.outcome /\ log' = r.log
       ELSE pc' = "read" /\ UNCHANGED <<outcome, log, capCompat>>
  /\ UNCHANGED <<manifest, file, call, capCompat>>

\* fs.promises.readFile settles
ReadSettles ==
  /\ pc = "read"
  /\ pc' = "done"
  /\ LET r == AsyncAfterRead(readFile(file, call.path), call.options)
     IN outcome' = r.outcome /\ log' = r.log
  /\ UNCHANGED <<manifest, file, call, capCompat>>

\* the caller takes the outcome; the next call can start
Finish ==
  /\ pc = "done"
  /\ pc' = "idle"
  /\ call' = NoCall
  /\ outcome' = Pending
  /\ log' = <<>>
  /\ UNCHANGED <<manifest, file, capCompat>>

Next ==
  \/ \E options \in OptionValues : CallAnalyze(options)
  \/ \E manifestPath \in Paths, options \in OptionValues :
       CallSync(manifestPath, options)
  \/ \E manifestPath \in Paths, options \in OptionValues :
       CallAsync(manifestPath, options)
  \/ AccessSettles
  \/ ReadSettles
  \/ Finish

Spec == Init /\ [][Next]_vars

(***************************************************************************)
(* Vocabulary of the properties.                                           *)
(***************************************************************************)
\* a call of the function fn has completed
Done(fn) == pc = "done" /\ call.fn = fn

Returned == outcome.kind = "return"

Thrown == outcome.kind = "throw"

HasCapability(list, c) == \E i \in 1..Len(list) : list[i].capability = c

Capabilities(list) == [i \in 1..Len(list) |-> list[i].capability]

\* the value a manifest holds at a field, Undefined when there is none
FieldValue(m, f) ==
  IF Len(f) = 1 THEN Get(m, f[1]) ELSE Get(Get(m, f[1]), f[2])

\* a string with a character that is not white space
NonBlankString(v) ==
  v.t = "string" /\ \E i \in 1..Len(v.s) : v.s[i] \notin WhiteSpace

\* an array with such a string among its elements
NonBlankElement(v) ==
  v.t = "array" /\ \E i \in 1..Len(v.a) : NonBlankString(v.a[i])

\* the string-alias capabilities: alias fields that hold a string, alias
\* fields that hold an array of strings, and the description
AliasTable ==
  [ background |->
      [ strings |-> { <<"background", "page">>,
                      <<"background", "service_worker">> },
        arrays |-> { <<"background", "scripts">> },
        description |->
          "Background service worker or page for persistent functionality" ],
    popup |->
      [ strings |-> { <<"action", "default_popup">>,
                      <<"browser_action", "default_popup">>,
                      <<"page_action", "default_popup">> },
        arrays |-> {},
        description |-> "Toolbar popup UI" ],
    sidebar |->
      [ strings |-> { <<"side_panel", "default_path">>,
                      <<"sidebar_action", "default_panel">> },
        arrays |-> {},
        description |-> "Side panel UI" ],
    devtools |->
      [ strings |-> { <<"devtools_page">> },
        arrays |-> {},
        description |-> "Developer tools panel" ],
    options |->
      [ strings |-> { <<"options_ui", "page">>, <<"options_page">> },
        arrays |-> {},
        description |-> "Options page for user configuration" ],
    newtab |->
      [ strings |-> { <<"chrome_url_overrides", "newtab">> },
        arrays |-> {},
        description |-> "New tab page override" ],
    bookmarks |->
      [ strings |-> { <<"chrome_url_overrides", "bookmarks">> },
        arrays |-> {},
        description |-> "Bookmarks page override" ],
    history |->
      [ strings |-> { <<"chrome_url_overrides", "history">> },
        arrays |-> {},
        description |-> "History page override" ],
    sandbox |->
      [ strings |-> {},
        arrays |-> { <<"sandbox", "pages">> },
        description |-> "Sandboxed pages for isolated execution" ] ]

AliasTriggered(m, c) ==
  \/ \E f \in AliasTable[c].strings : NonBlankString(FieldValue(m, f))
  \/ \E f \in AliasTable[c].arrays : NonBlankElement(FieldValue(m, f))

\* {background: {service_worker}, content_scripts: [one], action:
\* {default_popup}}
ExampleManifest ==
  WithFields(EmptyManifest,
             { <<"background", "service_worker">>, <<"content_scripts">>,
               <<"action", "default_popup">> })

BareFallback ==
  [capability |-> "manifest",
   description |-> "Basic extension manifest configuration"]

\* no option that shapes the records is set
NoShaping(options) ==
  /\ ~Flag(options, "includeFields")
  /\ ~Flag(options, "normalizeNames")
  /\ ~Flag(options, "includeCompatibility")

\* C2: the output of analyzeExtensionManifest is never empty; when no rule
\* is satisfied it is the single record {manifest, Basic extension manifest
\* configuration} (exactly that when no option is set), and when a rule is
\* satisfied it holds no manifest record.
C2_NeverEmpty ==
  Done("analyze") /\ Returned =>
    /\ Len(outcome.value) >= 1
    /\ capabilityMap(manifest, call.options) = EmptyMap =>
         /\ Capabilities(outcome.value) = <<"manifest">>
         /\ outcome.value[1].description = BareFallback.description
         /\ NoShaping(call.options) => outcome.value = <<BareFallback>>
    /\ capabilityMap(manifest, call.options) # EmptyMap =>
         ~HasCapability(outcome.value, "manifest")

C2_Witness ==
  /\ Done("analyze")
  /\ Returned
  /\ manifest # EmptyManifest
  /\ capabilityMap(manifest, call.options) = EmptyMap
  /\ NoShaping(call.options)
  /\ outcome.value = <<BareFallback>>

\* C3: the list returned by analyzeExtensionManifest never holds two
\* records with the same capability, also when several alias fields of one
\* capability are set at once.
C3_NoDuplicateCapability ==
  Done("analyze") /\ Returned =>
    \A i, j \in 1..Len(outcome.value) :
      outcome.value[i].capability = outcome.value[j].capability => i = j

C3_Witness ==
  /\ Done("analyze")
  /\ Returned
  /\ NonBlankString(FieldValue(manifest, <<"action", "default_popup">>))
  /\ NonBlankString(FieldValue(manifest, <<"browser_action", "default_popup">>))
  /\ Cardinality({i \in 1..Len(outcome.value) :
                    outcome.value[i].capability = "popup"}) = 1

\* an empty or whitespace-only string
BlankString(v) ==
  v.t = "string" /\ \A i \in 1..Len(v.s) : v.s[i] \in WhiteSpace

\* the field holds a blank string, or an array with a blank string element
HoldsBlank(v) ==
  \/ BlankString(v)
  \/ v.t = "array" /\ \E i \in 1..Len(v.a) : BlankString(v.a[i])

\* the manifest m without the key of field f
RemoveField(m, f) ==
  IF Len(f) = 1
    THEN Obj([k \in DOMAIN m.o \ {f[1]} |-> m.o[k]])
    ELSE LET inner == m.o[f[1]].o
         IN Obj((f[1] :> Obj([k \in DOMAIN inner \ {f[2]} |-> inner[k]]))
                  @@ m.o)

\* the manifest m with the blank strings of field f absent: the key removed
\* when the field is a blank string, the blank elements removed when it is
\* an array
WithoutBlank(m, f) ==
  LET v == FieldValue(m, f)
  IN IF v.t = "array"
       THEN SetField(m, f, Arr(SelectSeq(v.a, LAMBDA e : ~BlankString(e))))
       ELSE RemoveField(m, f)

\* C4: a trigger field (or a string element of an array-valued trigger)
\* that holds an empty or whitespace-only string yields the same output as
\* the manifest with that field absent.
C4_BlankLikeAbsent ==
  Done("analyze") /\ Returned /\ manifest.t = "object" =>
    \A f \in TriggerFields :
      HoldsBlank(FieldValue(manifest, f)) =>
        outcome =
          analyzeExtensionManifest(WithoutBlank(manifest, f), call.options)

\* lower case of a code unit
LowerCase(c) == IF c >= 65 /\ c <= 90 THEN c + 32 ELSE c

\* the lower-cased key of a record: its id when it has one, else its
\* capability
LowerKey(r) ==
  LET k == CodeUnits[IF "id" \in DOMAIN r THEN r.id ELSE r.capability]
  IN [i \in 1..Len(k) |-> LowerCase(k[i])]

\* a strictly before b, code unit by code unit
StrictlyBefore(a, b) ==
  \E k \in 1..Len(b) :
    /\ \A j \in 1..(k - 1) : j <= Len(a) /\ a[j] = b[j]
    /\ k > Len(a) \/ a[k] < b[k]

\* {devtools_page, action: {default_popup}}
DevtoolsPopupManifest ==
  WithFields(EmptyManifest,
             { <<"devtools_page">>, <<"action", "default_popup">> })

LoaderDone == Done("sync") \/ Done("async")

\* the file the completed loader call was pointed at
Target == FileAt(file, call.path)

\* a one-element list holding the manifest record; exactly the bare record
\* when neither id nor fields is asked for
IsFallbackList(list, options) ==
  /\ Len(list) = 1
  /\ list[1].capability = "manifest"
  /\ list[1].description = "Basic extension manifest configuration"
  /\ ~Flag(options, "includeFields") /\ ~Flag(options, "normalizeNames") =>
       list = <<BareFallback>>

\* the file is missing, unreadable, not JSON, or JSON for null
FailureCase ==
  \/ Target.kind \in {"missing", "unreadable"}
  \/ Target.kind = "text" /\ ~Target.wellFormed
  \/ Target.kind = "text" /\ Target.wellFormed /\ Target.value = Null

\* C6: with strict unset or false neither loader throws or rejects, and on
\* a missing or unreadable file, on content that is not JSON and on content
\* that parses to null it returns the fallback list.
C6_NonStrictNeverThrows ==
  LoaderDone /\ ~Flag(call.options, "strict") =>
    /\ Returned
    /\ FailureCase => IsFallbackList(outcome.value, call.options)

C6_Witness ==
  /\ Done("async")
  /\ ~Flag(call.options, "strict")
  /\ call.path = ManifestPath
  /\ file = JsonText(Null)
  /\ Returned
  /\ outcome.value = <<BareFallback>>

\* C7: with strict set and no file at the path, both loaders fail with the
\* error 'Manifest file not found at: <path>' naming the given path, return
\* no list and write no warning.
C7_StrictNotFound ==
  LoaderDone /\ Flag(call.options, "strict") /\ Target.kind = "missing" =>
    /\ outcome =
         [kind |-> "throw",
          error |->
            [name |-> "Error",
             message |-> <<"Manifest file not found at: ", call.path>>]]
    /\ log = <<>>

C7_Witness ==
  /\ Done("sync")
  /\ Flag(call.options, "strict")
  /\ call.path = ManifestPath
  /\ file = Missing
  /\ Thrown
  /\ outcome.error.message[2] = ManifestPath

\* the file exists and the read or the parse of its content fails
ReadOrParseFails ==
  \/ Target.kind = "unreadable"
  \/ Target.kind = "text" /\ ~Target.wellFormed

\* the error the failing read or parse raises
UnderlyingError ==
  IF Target.kind = "unreadable"
    THEN [name |-> "Error", code |-> "EACCES", syscall |-> "open",
          path |-> call.path]
    ELSE [name |-> "SyntaxError"]

\* C8: when the file exists and the read or the parse fails, with strict
\* set both loaders throw that same error value and return no list; with
\* strict unset they log it as an error and return the fallback list.
C8_ReadParseFailure ==
  LoaderDone /\ ReadOrParseFails =>
    IF Flag(call.options, "strict")
      THEN outcome = [kind |-> "throw", error |-> UnderlyingError]
      ELSE /\ Returned
           /\ IsFallbackList(outcome.value, call.options)
           /\ log = << [level |-> "error",
                        text |-> "Error analyzing extension manifest:",
                        error |-> UnderlyingError] >>

C8_Witness ==
  /\ Done("async")
  /\ Flag(call.options, "strict")
  /\ file = NotJson
  /\ call.path = ManifestPath
  /\ Thrown
  /\ outcome.error = [name |-> "SyntaxError"]

\* the content of the file parses as JSON
ParsesAsJson == Target.kind = "text" /\ Target.wellFormed

\* C9 as stated: for every file whose content parses as JSON, what the
\* loader gives is what analyzeExtensionManifest gives on the parsed
\* content with the same options.
C9_LoaderEqualsDetector ==
  LoaderDone /\ ParsesAsJson =>
    outcome = analyzeExtensionManifest(Target.value, call.options)

\* C9, amended: for every file whose content parses as JSON to a value
\* other than null, the loader returns the list analyzeExtensionManifest
\* returns on the parsed content with the same options.
C9_LoaderEqualsDetectorNonNull ==
  LoaderDone /\ ParsesAsJson /\ Target.value # Null =>
    /\ Returned
    /\ outcome = analyzeExtensionManifest(Target.value, call.options)

C9_Witness ==
  /\ Done("sync")
  /\ call.path = ManifestPath
  /\ file = JsonText(ExampleManifest)
  /\ Flag(call.options, "includeFields")
  /\ Returned
  /\ Len(outcome.value) = 3
  /\ "fields" \in DOMAIN outcome.value[1]

\* C10: on a file state that stays fixed during the call, the asynchronous
\* loader ends as the synchronous one does on the same path and options:
\* the same returned list or the same error, and the same console output.
C10_SyncAsyncAgree ==
  Done("async") =>
    [outcome |-> outcome, log |-> log] =
      getExtensionCapabilities(file, call.path, call.options)

C10_Witness ==
  /\ Done("async")
  /\ call.path = ManifestPath
  /\ file = Unreadable
  /\ ~Flag(call.options, "strict")
  /\ Returned
  /\ Len(log) = 1
  /\ log[1].level = "error"

\* ---------------------------------------------------------------------
\* Optional attributes of the records.

\* The normalized id every rule passes to pushCapability, by capability
\* key, with the id of the fallback record.
NormalizedIdOf ==
  [background |-> "background",
   content_scripts |-> "content_scripts",
   popup |-> "action_popup",
   sidebar |-> "sidebar",
   devtools |-> "devtools_page",
   options |-> "options",
   newtab |-> "chrome_url_overrides.newtab",
   bookmarks |-> "chrome_url_overrides.bookmarks",
   history |-> "chrome_url_overrides.history",
   sandbox |-> "sandbox",
   web_resources |-> "web_accessible_resources",
   omnibox |-> "omnibox",
   commands |-> "commands",
   settings_homepage |-> "chrome_settings_overrides.homepage",
   settings_search_provider |-> "chrome_settings_overrides.search_provider",
   settings_startup_pages |-> "chrome_settings_overrides.startup_pages",
   declarative_net_request |-> "declarative_net_request",
   tts_engine |-> "tts_engine",
   manifest |-> "manifest"]

\* The key the record itself shows: its id when it has one, its
\* capability otherwise.
EffectiveKey(r) == IF "id" \in DOMAIN r THEN r.id ELSE r.capability

CompatibilityUnder(r, key) ==
  /\ ("compatibility" \in DOMAIN r)
       <=> (Flag(call.options, "includeCompatibility")
              /\ key \in DOMAIN CAP_COMPAT)
  /\ "compatibility" \in DOMAIN r => r.compatibility = CAP_COMPAT[key]

\* C11 as stated: a record carries compatibility exactly when
\* includeCompatibility is set and the table has an entry under the
\* record's effective key (its id when normalizeNames gave it one, its
\* capability otherwise), and the value is that entry.
C11_CompatibilityByEffectiveKey ==
  (Done("analyze") /\ Returned) =>
    \A i \in 1..Len(outcome.value) :
      CompatibilityUnder(outcome.value[i], EffectiveKey(outcome.value[i]))

\* C11, amended: a record carries compatibility exactly when
\* includeCompatibility is set and the table has an entry under the
\* normalized id of the record's rule, whether or not normalizeNames is
\* set, and the value is that entry.
C11_CompatibilityByNormalizedId ==
  (Done("analyze") /\ Returned) =>
    \A i \in 1..Len(outcome.value) :
      CompatibilityUnder(outcome.value[i],
                         NormalizedIdOf[outcome.value[i].capability])

\* Compatibility requested without normalized names, on a capability
\* whose normalized id differs from its key: the record shows no id and
\* carries the entry of devtools_page.
C11_Witness ==
  /\ Done("analyze") /\ Returned
  /\ Flag(call.options, "includeCompatibility")
  /\ ~Flag(call.options, "normalizeNames")
  /\ \E i \in 1..Len(outcome.value) :
       /\ outcome.value[i].capability = "devtools"
       /\ "id" \notin DOMAIN outcome.value[i]
       /\ "compatibility" \in DOMAIN outcome.value[i]

\* The entries of the static table, by capability: which capabilities
\* Safari supports, and the fixed text of the unsupported ones.
SafariSupports ==
  {"background", "content_scripts", "popup", "devtools", "options",
   "web_resources", "commands"}

SafariLacks ==
  {"sidebar", "omnibox", "newtab", "bookmarks", "history",
   "declarative_net_request", "tts_engine"}

SidebarCompatibility ==
  [safari |-> FALSE,
   notes |-> "Chromium uses side_panel; Firefox uses sidebar_action. Safari does not provide an equivalent sidebar UI API.",
   docs |-> "https://developer.mozilla.org/docs/Mozilla/Add-ons/WebExtensions/user_interface"]

SidebarOnlyManifests ==
  {SetField(EmptyManifest, <<"side_panel", "default_path">>, X),
   SetField(EmptyManifest, <<"sidebar_action", "default_panel">>, X)}

\* C12: with includeCompatibility, a manifest that triggers only the
\* sidebar yields one sidebar record whose compatibility is safari =
\* false with the fixed sidebar notes and docs; and every compatibility
\* attached to a record is the constant entry of its capability
\* (supported: safari = true and nothing else; unsupported: safari =
\* false with notes and docs).
C12_SidebarCompatibility ==
  (Done("analyze") /\ Returned
     /\ Flag(call.options, "includeCompatibility")) =>
    /\ manifest \in SidebarOnlyManifests =>
         /\ Len(outcome.value) = 1
         /\ outcome.value[1].capability = "sidebar"
         /\ "compatibility" \in DOMAIN outcome.value[1]
         /\ outcome.value[1].compatibility = SidebarCompatibility
    /\ \A i \in 1..Len(outcome.value) :
         LET r == outcome.value[i] IN
           "compatibility" \in DOMAIN r =>
             /\ r.capability \in SafariSupports \cup SafariLacks
             /\ r.capability \in SafariSupports =>
                  r.compatibility = [safari |-> TRUE]
             /\ r.capability \in SafariLacks =>
                  /\ DOMAIN r.compatibility = {"safari", "notes", "docs"}
                  /\ r.compatibility.safari = FALSE
             /\ r.compatibility =
                  CAP_COMPAT[NormalizedIdOf[r.capability]]

C12_Witness ==
  /\ Done("analyze") /\ Returned
  /\ Flag(call.options, "includeCompatibility")
  /\ manifest \in SidebarOnlyManifests
  /\ outcome.value[1].compatibility.safari = FALSE

\* The manifest field paths each rule declares, in the order it lists them.
FieldsOf ==
  [background |-> <<"background.page", "background.scripts",
                    "background.service_worker">>,
   content_scripts |-> <<"content_scripts">>,
   popup |-> <<"action.default_popup", "browser_action.default_popup",
               "page_action.default_popup">>,
   sidebar |-> <<"side_panel.default_path", "sidebar_action.default_panel">>,
   devtools |-> <<"devtools_page">>,
   options |-> <<"options_ui.page", "options_page">>,
   newtab |-> <<"chrome_url_overrides.newtab">>,
   bookmarks |-> <<"chrome_url_overrides.bookmarks">>,
   history |-> <<"chrome_url_overrides.history">>,
   sandbox |-> <<"sandbox.pages">>,
   web_resources |-> <<"web_accessible_resources">>,
   omnibox |-> <<"omnibox.keyword">>,
   commands |-> <<"commands">>,
   settings_homepage |-> <<"chrome_settings_overrides.homepage">>,
   settings_search_provider |->
     <<"chrome_settings_overrides.search_provider">>,
   settings_startup_pages |-> <<"chrome_settings_overrides.startup_pages">>,
   declarative_net_request |-> <<"declarative_net_request.rule_resources">>,
   tts_engine |-> <<"tts_engine.voices">>]

BrowserActionOnly ==
  SetField(EmptyManifest, <<"browser_action", "default_popup">>, X)

PathName(f) == IF Len(f) = 1 THEN f[1] ELSE f[1] \o "." \o f[2]

\* the alias fields of a capability that hold a triggering value
TriggeringFields(m, c) ==
  {PathName(f) : f \in {g \in AliasTable[c].strings :
                          NonBlankString(FieldValue(m, g))}}
  \cup {PathName(f) : f \in {g \in AliasTable[c].arrays :
                               NonBlankElement(FieldValue(m, g))}}

ServiceWorkerOnly ==
  SetField(EmptyManifest, <<"background", "service_worker">>, X)

ActionPopupOnly ==
  SetField(EmptyManifest, <<"action", "default_popup">>, X)

\* C14 as stated: with includeFields the fields of a record are the
\* manifest fields that triggered the capability: only
\* background.service_worker set gives background with fields
\* <<background.service_worker>>, only action.default_popup set gives
\* popup with fields <<action.default_popup>>.
C14_FieldsTriggeredOnly ==
  (Done("analyze") /\ Returned /\ Flag(call.options, "includeFields")) =>
    /\ \A i \in 1..Len(outcome.value) :
         LET r == outcome.value[i] IN
           r.capability \in DOMAIN AliasTable =>
             /\ "fields" \in DOMAIN r
             /\ {r.fields[j] : j \in 1..Len(r.fields)}
                  = TriggeringFields(manifest, r.capability)
    /\ manifest = ServiceWorkerOnly =>
         /\ HasCapability(outcome.value, "background")
         /\ outcome.value[1].fields = <<"background.service_worker">>
    /\ manifest = ActionPopupOnly =>
         /\ HasCapability(outcome.value, "popup")
         /\ outcome.value[1].fields = <<"action.default_popup">>

\* C15: every record of every returned list, of the detector and of both
\* loaders, fallback included, carries an id exactly when normalizeNames
\* is set, and the id is the rule's normalized id: the capability key for
\* background, content_scripts, sidebar, options, sandbox, omnibox,
\* commands, declarative_net_request, tts_engine and manifest, and
\* action_popup, devtools_page, web_accessible_resources,
\* chrome_url_overrides.<key>, chrome_settings_overrides.<field> for the
\* others.
C15_IdIffNormalizeNames ==
  (pc = "done" /\ Returned) =>
    \A i \in 1..Len(outcome.value) :
      LET r == outcome.value[i] IN
        /\ r.capability \in DOMAIN NormalizedIdOf
        /\ ("id" \in DOMAIN r) <=> Flag(call.options, "normalizeNames")
        /\ "id" \in DOMAIN r => r.id = NormalizedIdOf[r.capability]
        /\ ("id" \in DOMAIN r
              /\ r.capability \in
                   {"background", "content_scripts", "sidebar", "options",
                    "sandbox", "omnibox", "commands",
                    "declarative_net_request", "tts_engine", "manifest"})
             => r.id = r.capability

C15_Witness ==
  /\ Done("analyze") /\ Returned
  /\ Flag(call.options, "normalizeNames")
  /\ \E i \in 1..Len(outcome.value) :
       /\ outcome.value[i].capability = "settings_homepage"
       /\ outcome.value[i].id = "chrome_settings_overrides.homepage"

\* the fallback record a call with the given options is to return
ExpectedFallback(options) ==
  IF Flag(options, "normalizeNames")
    THEN IF Flag(options, "includeFields")
           THEN [capability |-> "manifest",
                 description |-> "Basic extension manifest configuration",
                 id |-> "manifest", fields |-> <<>>]
           ELSE [capability |-> "manifest",
                 description |-> "Basic extension manifest configuration",
                 id |-> "manifest"]
    ELSE IF Flag(options, "includeFields")
           THEN [capability |-> "manifest",
                 description |-> "Basic extension manifest configuration",
                 fields |-> <<>>]
           ELSE [capability |-> "manifest",
                 description |-> "Basic extension manifest configuration"]

\* C16: on every path that produces it (the detector with no rule
\* satisfied, either loader on a missing file or on a read or parse
\* failure) the fallback record is capability manifest with the fixed
\* description, id manifest exactly when normalizeNames is set, fields the
\* empty list exactly when includeFields is set, and no compatibility even
\* when includeCompatibility is set.
C16_FallbackShape ==
  (pc = "done" /\ Returned) =>
    /\ HasCapability(outcome.value, "manifest") =>
         outcome.value = <<ExpectedFallback(call.options)>>
    /\ (Done("analyze") /\ manifest = EmptyManifest) =>
         outcome.value = <<ExpectedFallback(call.options)>>
    /\ (LoaderDone /\ FailureCase) =>
         outcome.value = <<ExpectedFallback(call.options)>>

C16_Witness ==
  /\ Done("async") /\ Returned
  /\ Target.kind = "text" /\ ~Target.wellFormed
  /\ Flag(call.options, "includeCompatibility")
  /\ Flag(call.options, "includeFields")
  /\ outcome.value = <<ExpectedFallback(call.options)>>

\* ---------------------------------------------------------------------
\* Web-accessible resources.

\* an entry that names a resource: a non-blank string (MV2), or an object
\* whose resources array holds a non-blank string (MV3)
NamesResource(e) ==
  \/ NonBlankString(e)
  \/ e.t = "object" /\ NonBlankElement(Get(e, "resources"))

WebAccessibleResources == FieldValue(manifest, <<"web_accessible_resources">>)

\* C17 as stated: web_resources is reported exactly when
\* web_accessible_resources is a non-empty array each of whose entries is
\* a non-empty string or an object whose resources hold a non-empty
\* string.
C17_EveryEntryNamesResource ==
  (Done("analyze") /\ Returned) =>
    LET war == WebAccessibleResources IN
      HasCapability(outcome.value, "web_resources")
        <=> /\ war.t = "array"
            /\ Len(war.a) > 0
            /\ \A i \in 1..Len(war.a) : NamesResource(war.a[i])

\* C17, amended: web_resources is reported exactly when
\* web_accessible_resources is an array with at least one entry that is a
\* non-empty string or an object whose resources hold a non-empty string;
\* the array of strings and the array of objects with resources both
\* yield it, an array of blank strings or of objects with blank resources
\* does not.
C17_SomeEntryNamesResource ==
  (Done("analyze") /\ Returned) =>
    LET war == WebAccessibleResources IN
      /\ HasCapability(outcome.value, "web_resources")
           <=> /\ war.t = "array"
               /\ \E i \in 1..Len(war.a) : NamesResource(war.a[i])
      /\ war \in {Arr(<<X>>), Arr(<<ResourcesOf(X)>>)} =>
           HasCapability(outcome.value, "web_resources")
      /\ war \in {Arr(<<Blank>>), Arr(<<ResourcesOf(Blank)>>)} =>
           ~HasCapability(outcome.value, "web_resources")

\* a blank entry beside a named resource: the capability is reported
C17_Witness ==
  /\ Done("analyze") /\ Returned
  /\ WebAccessibleResources = Arr(<<Blank, X>>)
  /\ HasCapability(outcome.value, "web_resources")

\* ---------------------------------------------------------------------
\* Array- and object-valued triggers.

\* the fields whose capability is triggered by a non-empty array
ArrayTriggers ==
  { [field |-> <<"content_scripts">>, capability |-> "content_scripts"],
    [field |-> <<"chrome_settings_overrides", "startup_pages">>,
     capability |-> "settings_startup_pages"],
    [field |-> <<"declarative_net_request", "rule_resources">>,
     capability |-> "declarative_net_request"],
    [field |-> <<"tts_engine", "voices">>, capability |-> "tts_engine"] }

NonEmptyArray(v) == v.t = "array" /\ Len(v.a) > 0

NonEmptyObject(v) == v.t = "object" /\ DOMAIN v.o # {}

\* C19 as stated: content_scripts, startup_pages, rule_resources and
\* voices trigger their capability exactly when the value is an array with
\* at least one element, commands exactly when the value is an object
\* with at least one key; a string or a number there never triggers.
C19_TriggersByType ==
  (Done("analyze") /\ Returned) =>
    /\ \A t \in ArrayTriggers :
         HasCapability(outcome.value, t.capability)
           <=> NonEmptyArray(FieldValue(manifest, t.field))
    /\ HasCapability(outcome.value, "commands")
         <=> NonEmptyObject(FieldValue(manifest, <<"commands">>))

\* ---------------------------------------------------------------------
\* Malformed fields.

\* a value of another JSON type than the field's expected shape
Malformed(f, v) == v.t # "undefined" /\ v.t # WellFormed(f).t

\* C20 as stated: on a parsed manifest object analyzeExtensionManifest
\* never raises, whatever its fields hold (null, a number, a string, an
\* array or an object in place of the expected shape, null array
\* elements); it returns a list, and a malformed field contributes no
\* capability: a manifest whose one field is malformed gives the fallback.
C20_MalformedContributesNothing ==
  (Done("analyze") /\ manifest.t = "object") =>
    /\ Returned
    /\ \A f \in TriggerFields :
         (/\ manifest = SetField(EmptyManifest, f, FieldValue(manifest, f))
          /\ Malformed(f, FieldValue(manifest, f)))
           => outcome.value = <<ExpectedFallback(call.options)>>

(***************************************************************************)
(* The loaders beside a file system that changes.  While the asynchronous  *)
(* loader is suspended at an await, another process can remove the file    *)
(* or write it; the synchronous loader runs to completion between two      *)
(* such changes.                                                           *)
(***************************************************************************)

\* the file is removed
FileRemoved ==
  /\ file.kind # "missing"
  /\ file' = Missing
  /\ UNCHANGED <<manifest, pc, call, outcome, log, capCompat>>

\* the file is written with the manifest the caller holds
FileWritten ==
  /\ file.kind = "missing"
  /\ file' = JsonText(manifest)
  /\ UNCHANGED <<manifest, pc, call, outcome, log, capCompat>>

\* the documents the changing file is tried with
FsDocuments == ScenarioManifests \cup {EmptyManifest, Null}

InitFs ==
  /\ \E d \in FsDocuments :
       /\ manifest = d
       /\ file \in {JsonText(d), Missing, Unreadable, NotJson}
  /\ pc = "idle"
  /\ call = NoCall
  /\ outcome = Pending
  /\ log = <<>>
  /\ capCompat = CAP_COMPAT

NextFs ==
  \/ \E options \in OptionValues : CallAnalyze(options)
  \/ \E manifestPath \in Paths, options \in OptionValues :
       CallSync(manifestPath, options)
  \/ \E manifestPath \in Paths, options \in OptionValues :
       CallAsync(manifestPath, options)
  \/ AccessSettles
  \/ ReadSettles
  \/ Finish
  \/ FileRemoved
  \/ FileWritten

SpecFs == InitFs /\ [][NextFs]_vars

\* an error that says there is no file at the path
NoFileError(e) ==
  \/ e = NotFoundError(call.path)
  \/ "code" \in DOMAIN e /\ e.code = "ENOENT"

\* C21 as stated: with strict, every failure of a loader call caused by
\* there being no file at the path is the error 'Manifest file not found
\* at: <path>', also when the file is removed after the existence check of
\* getExtensionCapabilitiesAsync succeeded and before its read; without
\* strict the call returns the fallback list.
C21_NoFileIsNotFoundError ==
  LoaderDone =>
    /\ (Flag(call.options, "strict") /\ Thrown
          /\ NoFileError(outcome.error))
         => outcome.error = NotFoundError(call.path)
    /\ ~Flag(call.options, "strict") =>
         /\ Returned
         /\ (\E i \in 1..Len(log) :
               "error" \in DOMAIN log[i] /\ NoFileError(log[i].error))
             => outcome.value = <<ExpectedFallback(call.options)>>

(***************************************************************************)
(* The caller and the records it is given.  A record, its fields array     *)
(* and the list are made by the call that returns them; the compatibility  *)
(* of a record is the entry object of CAP_COMPAT itself, so what the       *)
(* caller writes to it is written to the table.                            *)
(***************************************************************************)

\* the manifest the completed call analyzed
SourceManifest == IF call.fn = "analyze" THEN manifest ELSE Target.value

\* the key of the table entry pushCapability attached to the record of a
\* capability
AttachedEntry(m, capability) ==
  LET calls == Calls(m)
      i == CHOOSE j \in 1..Len(calls) : calls[j].key = capability
  IN calls[i].normalizedId

\* the caller takes the returned list and writes to the compatibility of
\* its i-th record: caps[i].compatibility.safari = !caps[i].compatibility.safari
CallerModifies(i) ==
  /\ pc = "done"
  /\ Returned
  /\ i \in 1..Len(outcome.value)
  /\ "compatibility" \in DOMAIN outcome.value[i]
  /\ LET k == AttachedEntry(SourceManifest, outcome.value[i].capability)
     IN capCompat' = [capCompat EXCEPT ![k].safari = ~@]
  /\ pc' = "idle"
  /\ call' = NoCall
  /\ outcome' = Pending
  /\ log' = <<>>
  /\ UNCHANGED <<manifest, file>>

\* the manifests the caller is tried with
SharedDocuments == ScenarioManifests \cup {EmptyManifest}

MaxRecords == 3

InitShared ==
  /\ \E d \in SharedDocuments : manifest = d /\ file = JsonText(d)
  /\ pc = "idle"
  /\ call = NoCall
  /\ outcome = Pending
  /\ log = <<>>
  /\ capCompat = CAP_COMPAT

NextShared ==
  \/ \E options \in OptionValues : CallAnalyze(options)
  \/ \E manifestPath \in Paths, options \in OptionValues :
       CallSync(manifestPath, options)
  \/ \E manifestPath \in Paths, options \in OptionValues :
       CallAsync(manifestPath, options)
  \/ AccessSettles
  \/ ReadSettles
  \/ Finish
  \/ \E i \in 1..MaxRecords : CallerModifies(i)

SpecShared == InitShared /\ [][NextShared]_vars

\* C22 as stated: no call and no write through a returned record changes
\* the compatibility table, and every call returns what it returns in a
\* fresh process, whatever the caller did to the records of earlier
\* calls: each compatibility it attaches is the entry the module was
\* loaded with.
C22_NoSharedState ==
  /\ capCompat = CAP_COMPAT
  /\ (pc = "done" /\ Returned) =>
       \A i \in 1..Len(outcome.value) :
         LET r == outcome.value[i] IN
           "compatibility" \in DOMAIN r =>
             r.compatibility = CAP_COMPAT[NormalizedIdOf[r.capability]]
====
